---- MODULE Spec2Model ----
(***************************************************************************)
(* Daily Budget Tracker (streamlit_app.py): two CSV files, the script that *)
(* Streamlit re-runs top to bottom on every interaction, and the pandas    *)
(* operations the script applies to what it loads.                         *)
(*                                                                         *)
(* A calendar month "YYYY-MM" is coded as a number (numeric order =        *)
(* lexicographic order of the strings), a day of month as its number.  A   *)
(* cell holding a date is a record [k, ym, dd] whose kind k says how the   *)
(* value is represented:                                                   *)
(*    "text"   the string "YYYY-MM-DD"          (CSV text, strftime)       *)
(*    "stamp"  the string "YYYY-MM-DD 00:00:00" (str() of a Timestamp)     *)
(*    "date"   a datetime.date object           (st.date_input)            *)
(*    "ts"     a pandas Timestamp               (pd.to_datetime)           *)
(*    "nan"    a missing value: a blank CSV cell, NaN, NaT                 *)
(* A DataFrame is a sequence of [label, row]: pandas keeps the index label *)
(* of a row through boolean filtering, and drop() removes by label.        *)
(* The library calls are modelled with the behaviour of pandas 2.x         *)
(* (to_datetime parses a column with the format of its first element) and  *)
(* of Streamlit's selectbox (None for an empty option list).               *)
(***************************************************************************)
EXTENDS Integers, Sequences, FiniteSets, TLC

\* ---------------------------------------------------------------- bounds
\* the two files hold at most MaxLen rows together when an append is clicked
MaxLen == 3
\* the script runs the first session makes while a second session, sharing
\* the files, makes one
MaxRaceRuns == 1

\* ------------------------------------------------------ program constants
MONTHLY_INCOME == 800

CATEGORY_BUDGET ==
  [c \in {"House Rent", "Shopping", "Groceries", "Food", "Transport", "Entertainment"} |->
     CASE c = "House Rent" -> 430
       [] c = "Shopping" -> 100
       [] c = "Groceries" -> 50
       [] c = "Food" -> 50
       [] c = "Transport" -> 20
       [] c = "Entertainment" -> 100]

\* ------------------------------------------------------------ date cells
NaN == [k |-> "nan", ym |-> 0, dd |-> 0]
Cell(kind, m, d) == [k |-> kind, ym |-> m, dd |-> d]

\* ------------------------------------------------------- sequence helpers
RECURSIVE SelectSeqBy(_, _)
\* the subsequence of s at the positions in keep, order kept (boolean mask)
SelectSeqBy(s, keep) ==
  IF s = <<>> THEN <<>>
  ELSE LET n == Len(s)
           front == SelectSeqBy(SubSeq(s, 1, n - 1), keep)
       IN IF n \in keep THEN Append(front, s[n]) ELSE front

RECURSIVE SumSeq(_)
SumSeq(s) == IF s = <<>> THEN 0 ELSE s[1] + SumSeq(Tail(s))

RECURSIVE SortedSeqOf(_)
\* sorted(): the ascending sequence of a set of month codes
SortedSeqOf(S) ==
  IF S = {} THEN <<>>
  ELSE LET mx == CHOOSE x \in S : \A y \in S : y <= x
       IN Append(SortedSeqOf(S \ {mx}), mx)

Range(s) == {s[i] : i \in 1..Len(s)}

\* --------------------------------------------------------------- frames
Labelled(l, r) == [label |-> l, row |-> r]
Labels(frame) == {frame[i].label : i \in 1..Len(frame)}
Rows(frame) == [i \in 1..Len(frame) |-> frame[i].row]

\* a fresh RangeIndex 0..n-1 over the rows, in order
RangeIndexed(rows) == [i \in 1..Len(rows) |-> Labelled(i - 1, rows[i])]

\* DataFrame.reset_index(drop=True)
reset_index(frame) == RangeIndexed(Rows(frame))

\* frame[mask]: the rows at the positions in keep, each with its own label
BoolIndex(frame, keep) == SelectSeqBy(frame, keep)

\* mutant of drop: takes the label as a 1-based position
drop_one_based(frame, index) ==
  BoolIndex(frame, {i \in 1..Len(frame) : frame[i].label # index - 1})

\* DataFrame.drop(index): the rows whose label is not index (KeyError is
\* the caller's case: index \notin Labels(frame))
drop(frame, index) ==
  BoolIndex(frame, {i \in 1..Len(frame) : frame[i].label # index})

\* mutant of concat: the new row goes in front
concat_front(frame, entry) == RangeIndexed(<<entry>> \o Rows(frame))

\* pd.concat([df, entry], ignore_index=True)
concat(frame, entry) == RangeIndexed(Append(Rows(frame), entry))

\* ------------------------------------------------------------ the files
MissingFile == [exists |-> FALSE, hasPay |-> FALSE, rows |-> <<>>]

\* pd.read_csv: the text of the rows, under a fresh RangeIndex
read_csv(file) == RangeIndexed(file.rows)

\* how to_csv writes one value of an object column: str(value)
CsvText(v) ==
  CASE v.k = "date" -> Cell("text", v.ym, v.dd)
    [] v.k = "ts" -> Cell("stamp", v.ym, v.dd)
    [] OTHER -> v

\* how to_csv writes one value of a datetime64 column whose values all
\* lie at midnight: the date alone
CsvDateOnly(v) == IF v.k = "ts" THEN Cell("text", v.ym, v.dd) ELSE v

\* a column is datetime64 when every value in it is a Timestamp (or NaT
\* beside at least one); any string or date object makes it object
IsDatetime64(col) ==
  /\ \A i \in 1..Len(col) : col[i].k \in {"ts", "nan"}
  /\ \E i \in 1..Len(col) : col[i].k = "ts"

CsvColumn(col) ==
  IF IsDatetime64(col) THEN [i \in 1..Len(col) |-> CsvDateOnly(col[i])]
  ELSE [i \in 1..Len(col) |-> CsvText(col[i])]

\* save_data: df.to_csv(file, index=False); labels are not written
save_data(frame) ==
  LET dates == CsvColumn([i \in 1..Len(frame) |-> frame[i].row.Date])
  IN [exists |-> TRUE, hasPay |-> FALSE,
      rows |-> [i \in 1..Len(frame) |-> [frame[i].row EXCEPT !.Date = dates[i]]]]

\* mutant of save_salary_data: a pay date made by to_datetime is not written
save_salary_data_no_derived(frame) ==
  LET starts == CsvColumn([i \in 1..Len(frame) |-> frame[i].row.Start])
      ends == CsvColumn([i \in 1..Len(frame) |-> frame[i].row.End])
  IN [exists |-> TRUE, hasPay |-> TRUE,
      rows |-> [i \in 1..Len(frame) |->
                 [Start |-> starts[i], End |-> ends[i],
                  Salary |-> frame[i].row.Salary,
                  Pay |-> IF frame[i].row.Pay.k = "ts" THEN NaN
                          ELSE CsvText(frame[i].row.Pay)]]]

\* save_salary_data: every column of the frame is written, 'Pay Date' too
save_salary_data(frame) ==
  LET starts == CsvColumn([i \in 1..Len(frame) |-> frame[i].row.Start])
      ends == CsvColumn([i \in 1..Len(frame) |-> frame[i].row.End])
      pays == CsvColumn([i \in 1..Len(frame) |-> frame[i].row.Pay])
  IN [exists |-> TRUE, hasPay |-> TRUE,
      rows |-> [i \in 1..Len(frame) |->
                 [Start |-> starts[i], End |-> ends[i],
                  Salary |-> frame[i].row.Salary, Pay |-> pays[i]]]]

\* ----------------------------------------------------------- to_datetime
\* the format to_datetime infers: that of the first non-missing string
FirstFormat(col) ==
  LET strs == {i \in 1..Len(col) : col[i].k \in {"text", "stamp"}}
  IN IF strs = {} THEN "none"
     ELSE col[CHOOSE i \in strs : \A j \in strs : i <= j].k

\* pd.to_datetime(col, errors='coerce'): a string in the inferred format
\* becomes a Timestamp, any other string and any missing value NaT
to_datetime_coerce(col) ==
  LET fmt == FirstFormat(col)
  IN [i \in 1..Len(col) |->
        CASE col[i].k \in {"ts", "date"} -> Cell("ts", col[i].ym, col[i].dd)
          [] col[i].k = fmt -> Cell("ts", col[i].ym, col[i].dd)
          [] OTHER -> NaN]

\* pd.to_datetime(col) with errors='raise': ValueError on a string that is
\* not in the inferred format; otherwise every string becomes a Timestamp
\* and a missing value NaT
ToDatetimeRaises(col) ==
  \E i \in 1..Len(col) : col[i].k \in {"text", "stamp"} /\ col[i].k # FirstFormat(col)

to_datetime(col) ==
  [i \in 1..Len(col) |->
     IF col[i].k = "nan" THEN NaN ELSE Cell("ts", col[i].ym, col[i].dd)]

\* datetime.date.strftime('%Y-%m-%d'): the date as the string 'YYYY-MM-DD'
strftime_Ymd(v) == Cell("text", v.ym, v.dd)

\* Series.dt.strftime('%Y-%m') of one Timestamp: its year-month
strftime_Ym(v) == v.ym

\* Series.str[:7] of one 'YYYY-MM-DD...' string: its first seven characters
str_7(v) == v.ym

\* ---------------------------------------------------------------- loads
\* load_data(): FileNotFoundError gives the empty frame
load_data(file) == IF file.exists THEN read_csv(file) ELSE <<>>

\* mutant of load_salary_data: every record without a pay date gets its
\* end date, whether or not the file has the column
load_salary_data_per_record(file) ==
  IF ~file.exists THEN <<>>
  ELSE LET df == read_csv(file)
           pay == to_datetime([i \in 1..Len(df) |-> df[i].row.End])
       IN [i \in 1..Len(df) |->
             IF df[i].row.Pay.k = "nan"
             THEN Labelled(df[i].label, [df[i].row EXCEPT !.Pay = pay[i]])
             ELSE df[i]]

\* load_salary_data(): a file without the 'Pay Date' column gets the column
\* as to_datetime(End Date); a file with the column is returned as read
load_salary_data(file) ==
  IF ~file.exists THEN <<>>
  ELSE LET df == read_csv(file)
       IN IF ~file.hasPay
          THEN LET pay == to_datetime([i \in 1..Len(df) |-> df[i].row.End])
               IN [i \in 1..Len(df) |->
                     Labelled(df[i].label, [df[i].row EXCEPT !.Pay = pay[i]])]
          ELSE df

\* ------------------------------------------------------------ the report
\* convert_to_datetime(df, 'Pay Date')
convert_to_datetime(frame) ==
  LET pay == to_datetime_coerce([i \in 1..Len(frame) |-> frame[i].row.Pay])
  IN [i \in 1..Len(frame) |->
        Labelled(frame[i].label, [frame[i].row EXCEPT !.Pay = pay[i]])]

\* mutant of DropNaT: the rows with NaT are kept
DropNaT_kept(frame) == frame

\* mutant of DropNaT: the filtered frame is renumbered
DropNaT_renumbered(frame) ==
  reset_index(BoolIndex(frame, {i \in 1..Len(frame) : frame[i].row.Pay.k # "nan"}))

\* salary_data[~salary_data['Pay Date'].isna()]
DropNaT(frame) ==
  BoolIndex(frame, {i \in 1..Len(frame) : frame[i].row.Pay.k # "nan"})

\* sorted(df['Date'].str[:7].unique())
daily_months_of(df) == SortedSeqOf({str_7(df[i].row.Date) : i \in 1..Len(df)})

\* sorted(salary_data['Pay Date'].dt.strftime('%Y-%m').unique())
salary_months_of(sd) == SortedSeqOf({strftime_Ym(sd[i].row.Pay) : i \in 1..Len(sd)})

\* sorted(set(daily_months + salary_months))
available_months_of(df, sd) ==
  SortedSeqOf(Range(daily_months_of(df) \o salary_months_of(sd)))

\* st.selectbox(label, options): the values it can return; None (the empty
\* sequence here) when there are no options, else any one of the options
selectbox(options) ==
  IF options = <<>> THEN {<<>>} ELSE {<<options[i]>> : i \in 1..Len(options)}

\* the selectbox's value when the user has not touched it (index 0)
selectbox_default(options) == IF options = <<>> THEN <<>> ELSE <<options[1]>>

\* df[df['Date'].str.startswith(month_filter)] for a month string
selected_month_data_of(df, month) ==
  BoolIndex(df, {i \in 1..Len(df) : str_7(df[i].row.Date) = month})

\* salary_data[salary_data['Pay Date'].dt.strftime('%Y-%m') == month_filter]
salary_for_month_of(sd, month) ==
  BoolIndex(sd, {i \in 1..Len(sd) : strftime_Ym(sd[i].row.Pay) = month})

\* frame.index.tolist()
index_tolist(frame) == [i \in 1..Len(frame) |-> frame[i].label]

\* mutant of groupby_spent: the other amount column is summed
groupby_spent_budgeted(view) ==
  [c \in {view[i].row.Category : i \in 1..Len(view)} |->
     LET group == BoolIndex(view, {i \in 1..Len(view) : view[i].row.Category = c})
     IN SumSeq([i \in 1..Len(group) |-> group[i].row.Budgeted])]

\* monthly_data.groupby('Category')['Amount Spent'].sum(): one sum per
\* category that occurs
groupby_spent(view) ==
  [c \in {view[i].row.Category : i \in 1..Len(view)} |->
     LET group == BoolIndex(view, {i \in 1..Len(view) : view[i].row.Category = c})
     IN SumSeq([i \in 1..Len(group) |-> group[i].row.Spent])]

\* monthly_data.groupby('Category')['Budgeted Amount'].sum()
groupby_budgeted(view) ==
  [c \in {view[i].row.Category : i \in 1..Len(view)} |->
     LET group == BoolIndex(view, {i \in 1..Len(view) : view[i].row.Category = c})
     IN SumSeq([i \in 1..Len(group) |-> group[i].row.Budgeted])]

RECURSIVE SeriesSum(_)
\* Series.sum() of a groupby result
SeriesSum(series) ==
  IF DOMAIN series = {} THEN 0
  ELSE LET c == CHOOSE x \in DOMAIN series : TRUE
       IN series[c] + SeriesSum([x \in DOMAIN series \ {c} |-> series[x]])

\* lines 173-178: the totals of the selected month
totals_of(view) ==
  LET total_spent_by_category == groupby_spent(view)
      total_spent == SeriesSum(total_spent_by_category)
  IN [total_spent_by_category |-> total_spent_by_category,
      total_spent |-> total_spent,
      total_budgeted |-> SeriesSum(groupby_budgeted(view)),
      remaining_budget |-> MONTHLY_INCOME - total_spent,
      remaining_savings |-> MONTHLY_INCOME - total_spent]

\* mutant of get_total_salary_for_month: the month of the pay date decides
total_salary_by_pay_date(file, month) ==
  LET salary_data == load_salary_data(file)
      pay == to_datetime_coerce([i \in 1..Len(salary_data) |-> salary_data[i].row.Pay])
      monthly_salary_data ==
        BoolIndex(salary_data,
                  {i \in 1..Len(salary_data) :
                     pay[i].k = "ts" /\ strftime_Ym(pay[i]) = month})
  IN SumSeq([i \in 1..Len(monthly_salary_data) |-> monthly_salary_data[i].row.Salary])

\* get_total_salary_for_month(month): reloads the salary file and sums the
\* salaries of the rows whose Start Date lies in the month
get_total_salary_for_month(file, month) ==
  LET salary_data == load_salary_data(file)
      start == to_datetime([i \in 1..Len(salary_data) |-> salary_data[i].row.Start])
      monthly_salary_data ==
        BoolIndex(salary_data,
                  {i \in 1..Len(salary_data) :
                     start[i].k = "ts" /\ strftime_Ym(start[i]) = month})
  IN SumSeq([i \in 1..Len(monthly_salary_data) |-> monthly_salary_data[i].row.Salary])

\* ---------------------------------------------------------------- state
VARIABLES
  expFile,     \* DATA_FILE 'daily_budget_data.csv'
  salFile,     \* SALARY_FILE 'salary_data.csv'
  sessions,    \* the browser sessions running the script
  quota,       \* script runs left to a session (-1: no limit)
  session,     \* per session: where its script run stands and its variables
  lastWriter   \* per file, the session whose save wrote it last (0: none)

vars == <<expFile, salFile, sessions, quota, session, lastWriter>>

SessionIds == {1, 2}

\* the buttons of one interaction, with the values of the sidebar inputs
NoExpInput == [date |-> NaN, category |-> "Food", spent |-> 0]
NoSalInput == [start_date |-> NaN, end_date |-> NaN, salary |-> 0, pay_date |-> NaN]
Click(b, e, p) == [btn |-> b, exp |-> e, sal |-> p]
\* the sidebar values the user enters for an expense (lines 100-106)
ExpInputs ==
  {[date |-> Cell("date", 1, 1), category |-> "Food", spent |-> 1],
   [date |-> Cell("date", 1, 15), category |-> "Transport", spent |-> 2],
   [date |-> Cell("date", 2, 1), category |-> "Food", spent |-> 2],
   [date |-> Cell("date", 2, 15), category |-> "Transport", spent |-> 1]}
\* the sidebar values the user enters for a salary period (lines 118-125):
\* paid within the month, paid in the month after the period's start
SalInputs ==
  {[start_date |-> Cell("date", 1, 1), end_date |-> Cell("date", 1, 15), salary |-> 1,
    pay_date |-> Cell("date", 1, 15)],
   [start_date |-> Cell("date", 1, 15), end_date |-> Cell("date", 2, 1), salary |-> 2,
    pay_date |-> Cell("date", 2, 1)],
   [start_date |-> Cell("date", 2, 1), end_date |-> Cell("date", 2, 15), salary |-> 1,
    pay_date |-> Cell("date", 2, 15)]}
Clicks ==
  {Click(b, NoExpInput, NoSalInput) : b \in {"none", "delete", "delete_salary"}}
  \cup {Click("add_entry", e, NoSalInput) : e \in ExpInputs}
  \cup {Click("add_salary", NoExpInput, p) : p \in SalInputs}

NoHist ==
  [op |-> "none", prior |-> <<>>, loaded |-> <<>>, entry |-> <<>>,
   index |-> <<>>, displayed |-> <<>>, removed |-> <<>>]

NoTotals ==
  [total_spent_by_category |-> <<>>, total_spent |-> 0, total_budgeted |-> 0,
   remaining_budget |-> 0, remaining_savings |-> 0]

\* a session before its first script run
Blank ==
  [pc |-> "done", ran |-> FALSE, status |-> "ok", click |-> Click("none", NoExpInput, NoSalInput),
   sal_at_start |-> MissingFile, df |-> <<>>, salary_loaded |-> <<>>,
   salary_data |-> <<>>, available_months |-> <<>>, month_filter |-> <<>>,
   selected_month_data |-> <<>>, delete_index |-> <<>>, exp_section |-> "",
   totals |-> NoTotals, total_salary_for_month |-> 0, total_monthly_income |-> 0,
   salary_for_month |-> <<>>, delete_salary_index |-> <<>>, sal_section |-> "",
   loaded |-> <<>>, hist |-> NoHist]

\* the rows a file can hold before the program first runs: 'YYYY-MM-DD'
\* text written by an earlier version without the 'Pay Date' column, or a
\* file with the column in which a pay date was left blank
LegacyRows ==
  {[Start |-> strftime_Ymd(p.start_date), End |-> strftime_Ymd(p.end_date),
    Salary |-> p.salary, Pay |-> NaN] : p \in SalInputs}
InitSalaryFiles ==
  {MissingFile}
  \cup {[exists |-> TRUE, hasPay |-> FALSE, rows |-> <<>>]}
  \cup {[exists |-> TRUE, hasPay |-> FALSE, rows |-> <<r>>] : r \in LegacyRows}
  \cup {[exists |-> TRUE, hasPay |-> FALSE, rows |-> <<r, q>>] : r \in LegacyRows, q \in LegacyRows}
  \cup {[exists |-> TRUE, hasPay |-> TRUE, rows |-> <<r>>] : r \in LegacyRows}

Init ==
  /\ expFile = MissingFile
  /\ salFile \in InitSalaryFiles
  /\ sessions = {1}
  /\ quota = [s \in SessionIds |-> -1]
  /\ session = [s \in SessionIds |-> Blank]
  /\ lastWriter = [exp |-> 0, sal |-> 0]

Set(s, rec) == session' = [session EXCEPT ![s] = rec]

\* --------------------------------------------------------------- actions
\* One interaction starts one run of the script.  Line 94: df = load_data().
\* The run then takes the branch of the button that was clicked.
Start(s) ==
  /\ s \in sessions
  /\ session[s].pc = "done"
  /\ quota[s] # 0
  /\ \E c \in Clicks :
       /\ c.btn \in {"add_entry", "add_salary"} =>
            Len(expFile.rows) + Len(salFile.rows) < MaxLen
       /\ Set(s, [Blank EXCEPT
                    !.ran = TRUE, !.click = c, !.df = load_data(expFile),
                    !.sal_at_start = salFile,
                    !.pc = CASE c.btn = "add_entry" -> "add_entry"
                             [] c.btn = "add_salary" -> "add_salary"
                             [] OTHER -> "months"])
  /\ quota' = [quota EXCEPT ![s] = IF @ > 0 THEN @ - 1 ELSE @]
  /\ UNCHANGED <<expFile, salFile, sessions, lastWriter>>

\* add_entry, line 50: df = load_data()
AddEntryLoad(s) ==
  /\ s \in sessions
  /\ session[s].pc = "add_entry"
  /\ Set(s, [session[s] EXCEPT !.loaded = load_data(expFile), !.pc = "add_entry_save"])
  /\ UNCHANGED <<expFile, salFile, sessions, quota, lastWriter>>

\* the row add_entry builds (line 110: the date as a string; line 106: the
\* category's fixed budget)
entry_of(input) ==
  [Date |-> strftime_Ymd(input.date), Category |-> input.category,
   Spent |-> input.spent, Budgeted |-> CATEGORY_BUDGET[input.category]]

\* mutant of AddEntrySave: the file is read again as it is saved
AddEntrySaveReread(s) ==
  /\ s \in sessions
  /\ session[s].pc = "add_entry_save"
  /\ LET entry == entry_of(session[s].click.exp)
         df == concat(load_data(expFile), entry)
     IN /\ expFile' = save_data(df)
        /\ Set(s, [session[s] EXCEPT
                     !.pc = "months",
                     !.hist = [NoHist EXCEPT !.op = "add_entry", !.prior = load_data(expFile),
                                            !.loaded = session[s].loaded, !.entry = <<entry>>]])
  /\ lastWriter' = [lastWriter EXCEPT !.exp = s]
  /\ UNCHANGED <<salFile, sessions, quota>>

\* add_entry, lines 51-53: concat and save_data
AddEntrySave(s) ==
  /\ s \in sessions
  /\ session[s].pc = "add_entry_save"
  /\ LET entry == entry_of(session[s].click.exp)
         df == concat(session[s].loaded, entry)
     IN /\ expFile' = save_data(df)
        /\ Set(s, [session[s] EXCEPT
                     !.pc = "months",
                     !.hist = [NoHist EXCEPT !.op = "add_entry", !.prior = load_data(expFile),
                                            !.loaded = session[s].loaded, !.entry = <<entry>>]])
  /\ lastWriter' = [lastWriter EXCEPT !.exp = s]
  /\ UNCHANGED <<salFile, sessions, quota>>

\* add_salary, line 57: df = load_salary_data()
AddSalaryLoad(s) ==
  /\ s \in sessions
  /\ session[s].pc = "add_salary"
  /\ Set(s, [session[s] EXCEPT !.loaded = load_salary_data(salFile), !.pc = "add_salary_save"])
  /\ UNCHANGED <<expFile, salFile, sessions, quota, lastWriter>>

\* the row add_salary builds (line 58): the date objects as given
salary_entry_of(input) ==
  [Start |-> input.start_date, End |-> input.end_date,
   Salary |-> input.salary, Pay |-> input.pay_date]

\* add_salary, lines 58-60: concat and save_salary_data
AddSalarySave(s) ==
  /\ s \in sessions
  /\ session[s].pc = "add_salary_save"
  /\ LET entry == salary_entry_of(session[s].click.sal)
         df == concat(session[s].loaded, entry)
     IN /\ salFile' = save_salary_data(df)
        /\ Set(s, [session[s] EXCEPT
                     !.pc = "months",
                     !.hist = [NoHist EXCEPT !.op = "add_salary", !.prior = load_salary_data(salFile),
                                            !.loaded = session[s].loaded, !.entry = <<entry>>]])
  /\ lastWriter' = [lastWriter EXCEPT !.sal = s]
  /\ UNCHANGED <<expFile, sessions, quota>>

\* lines 133-166: the month universe, the month selector and the expense
\* table.  str.startswith(None) raises TypeError and ends the run.
ComputeMonths(s) ==
  /\ s \in sessions
  /\ session[s].pc = "months"
  /\ LET me == session[s]
         salary_loaded == load_salary_data(salFile)
         salary_data == DropNaT(convert_to_datetime(salary_loaded))
         available_months == available_months_of(me.df, salary_data)
     IN \E month_filter \in selectbox(available_months) :
          IF month_filter = <<>>
          THEN Set(s, [me EXCEPT !.salary_loaded = salary_loaded,
                                 !.salary_data = salary_data,
                                 !.available_months = available_months,
                                 !.month_filter = month_filter,
                                 !.status = "TypeError", !.pc = "done"])
          ELSE LET selected_month_data == selected_month_data_of(me.df, month_filter[1])
                   options == index_tolist(selected_month_data)
               IN \E delete_index \in
                       (IF me.click.btn = "delete" THEN selectbox(options)
                        ELSE {selectbox_default(options)}) :
                    Set(s, [me EXCEPT
                              !.salary_loaded = salary_loaded,
                              !.salary_data = salary_data,
                              !.available_months = available_months,
                              !.month_filter = month_filter,
                              !.selected_month_data = selected_month_data,
                              !.delete_index = delete_index,
                              !.exp_section = IF selected_month_data # <<>> THEN "table" ELSE "no_data",
                              !.pc = IF selected_month_data # <<>> /\ me.click.btn = "delete"
                                     THEN "delete" ELSE "salary_total"])
  /\ UNCHANGED <<expFile, salFile, sessions, quota, lastWriter>>

RowAt(frame, index) ==
  LET hits == BoolIndex(frame, {i \in 1..Len(frame) : frame[i].label = index})
  IN IF hits = <<>> THEN <<>> ELSE <<hits[1].row>>

\* delete_confirmation(index), lines 70-71: load and drop; drop raises
\* KeyError for a label the loaded frame does not have
DeleteLoad(s) ==
  /\ s \in sessions
  /\ session[s].pc = "delete"
  /\ LET me == session[s]
         df == load_data(expFile)
         index == me.delete_index[1]
     IN IF index \notin Labels(df)
        THEN Set(s, [me EXCEPT !.status = "KeyError", !.pc = "done"])
        ELSE Set(s, [me EXCEPT
                       !.loaded = reset_index(drop(df, index)),
                       !.pc = "delete_save",
                       !.hist = [NoHist EXCEPT !.loaded = df, !.index = <<index>>,
                                              !.displayed = RowAt(me.selected_month_data, index),
                                              !.removed = RowAt(df, index)]])
  /\ UNCHANGED <<expFile, salFile, sessions, quota, lastWriter>>

\* delete_confirmation(index), line 72: save_data(df)
DeleteSave(s) ==
  /\ s \in sessions
  /\ session[s].pc = "delete_save"
  /\ expFile' = save_data(session[s].loaded)
  /\ Set(s, [session[s] EXCEPT
               !.pc = "salary_total",
               !.hist = [@ EXCEPT !.op = "delete", !.prior = load_data(expFile)]])
  /\ lastWriter' = [lastWriter EXCEPT !.exp = s]
  /\ UNCHANGED <<salFile, sessions, quota>>

\* lines 168-207: the totals, the salary total and the salary table
SalaryTotal(s) ==
  /\ s \in sessions
  /\ session[s].pc = "salary_total"
  /\ LET me == session[s]
         month == me.month_filter[1]
         total_salary_for_month == get_total_salary_for_month(salFile, month)
         salary_for_month == salary_for_month_of(me.salary_data, month)
         options == index_tolist(salary_for_month)
     IN \E delete_salary_index \in
            (IF me.click.btn = "delete_salary" THEN selectbox(options)
             ELSE {selectbox_default(options)}) :
          Set(s, [me EXCEPT
                    !.totals = IF me.selected_month_data # <<>>
                               THEN totals_of(me.selected_month_data) ELSE NoTotals,
                    !.total_salary_for_month = total_salary_for_month,
                    !.total_monthly_income = MONTHLY_INCOME + total_salary_for_month,
                    !.salary_for_month = salary_for_month,
                    !.delete_salary_index = delete_salary_index,
                    !.sal_section = IF salary_for_month # <<>> THEN "table" ELSE "no_data",
                    !.pc = IF salary_for_month # <<>> /\ me.click.btn = "delete_salary"
                           THEN "delete_salary" ELSE "done"])
  /\ UNCHANGED <<expFile, salFile, sessions, quota, lastWriter>>

\* delete_confirmation(index, is_salary=True), lines 65-66
DeleteSalaryLoad(s) ==
  /\ s \in sessions
  /\ session[s].pc = "delete_salary"
  /\ LET me == session[s]
         salary_df == load_salary_data(salFile)
         index == me.delete_salary_index[1]
     IN IF index \notin Labels(salary_df)
        THEN Set(s, [me EXCEPT !.status = "KeyError", !.pc = "done"])
        ELSE Set(s, [me EXCEPT
                       !.loaded = reset_index(drop(salary_df, index)),
                       !.pc = "delete_salary_save",
                       !.hist = [NoHist EXCEPT !.loaded = salary_df, !.index = <<index>>,
                                              !.displayed = RowAt(me.salary_for_month, index),
                                              !.removed = RowAt(salary_df, index)]])
  /\ UNCHANGED <<expFile, salFile, sessions, quota, lastWriter>>

\* delete_confirmation(index, is_salary=True), line 67: save_salary_data
DeleteSalarySave(s) ==
  /\ s \in sessions
  /\ session[s].pc = "delete_salary_save"
  /\ salFile' = save_salary_data(session[s].loaded)
  /\ Set(s, [session[s] EXCEPT
               !.pc = "done",
               !.hist = [@ EXCEPT !.op = "delete_salary", !.prior = load_salary_data(salFile)]])
  /\ lastWriter' = [lastWriter EXCEPT !.sal = s]
  /\ UNCHANGED <<expFile, sessions, quota>>

Next ==
  \E s \in SessionIds :
    \/ Start(s)
    \/ AddEntryLoad(s)
    \/ AddEntrySave(s)
    \/ AddSalaryLoad(s)
    \/ AddSalarySave(s)
    \/ ComputeMonths(s)
    \/ DeleteLoad(s)
    \/ DeleteSave(s)
    \/ SalaryTotal(s)
    \/ DeleteSalaryLoad(s)
    \/ DeleteSalarySave(s)

Spec == Init /\ [][Next]_vars

\* Two sessions (two browser tabs) on the same two files, from files the
\* program has written before: the first makes MaxRaceRuns script runs, the
\* second one run, interleaved in every order.
RaceExpRows ==
  <<entry_of([date |-> Cell("date", 1, 1), category |-> "Food", spent |-> 1]),
    entry_of([date |-> Cell("date", 1, 15), category |-> "Transport", spent |-> 2])>>
RaceSalRows ==
  <<[Start |-> Cell("text", 1, 1), End |-> Cell("text", 1, 15), Salary |-> 1,
     Pay |-> Cell("text", 1, 15)]>>
RaceFiles ==
  {<<MissingFile, MissingFile>>,
   <<[exists |-> TRUE, hasPay |-> FALSE, rows |-> RaceExpRows], MissingFile>>,
   <<[exists |-> TRUE, hasPay |-> FALSE, rows |-> SubSeq(RaceExpRows, 1, 1)],
     [exists |-> TRUE, hasPay |-> TRUE, rows |-> RaceSalRows]>>}

InitRace ==
  /\ \E f \in RaceFiles : expFile = f[1] /\ salFile = f[2]
  /\ sessions = SessionIds
  /\ quota = [s \in SessionIds |-> IF s = 1 THEN MaxRaceRuns ELSE 1]
  /\ session = [s \in SessionIds |-> Blank]
  /\ lastWriter = [exp |-> 0, sal |-> 0]

SpecRace == InitRace /\ [][Next]_vars

\* ------------------------------------------------------- what is claimed
\* the calendar date a cell denotes, however it is represented
DateOf(v) == IF v.k = "nan" THEN <<0, 0>> ELSE <<v.ym, v.dd>>
ExpValue(r) ==
  [Date |-> DateOf(r.Date), Category |-> r.Category, Spent |-> r.Spent,
   Budgeted |-> r.Budgeted]
SalValue(r) ==
  [Start |-> DateOf(r.Start), End |-> DateOf(r.End), Salary |-> r.Salary,
   Pay |-> DateOf(r.Pay)]
ExpValues(frame) == [i \in 1..Len(frame) |-> ExpValue(frame[i].row)]
SalValues(frame) == [i \in 1..Len(frame) |-> SalValue(frame[i].row)]
RemoveAt(seq, p) == SubSeq(seq, 1, p - 1) \o SubSeq(seq, p + 1, Len(seq))
RangeLabels(frame) == \A i \in 1..Len(frame) : frame[i].label = i - 1

\* the script run of s is past line 150 (the month selector)
PastMonths(s) ==
  /\ session[s].ran
  /\ session[s].pc \notin {"add_entry", "add_entry_save", "add_salary", "add_salary_save", "months"}

\* the script run of s is past line 198 and no error ended it
PastSalaryTotal(s) ==
  /\ session[s].ran
  /\ session[s].status = "ok"
  /\ session[s].pc \in {"delete_salary", "delete_salary_save", "done"}

\* Start Date and End Date columns hold strings of one format only, so the
\* to_datetime calls of lines 35, 78 and 79 never raise ValueError
NoValueError ==
  /\ ~ToDatetimeRaises([i \in 1..Len(salFile.rows) |-> salFile.rows[i].Start])
  /\ ~ToDatetimeRaises([i \in 1..Len(salFile.rows) |-> salFile.rows[i].End])
  /\ \A i \in 1..Len(salFile.rows) :
       salFile.rows[i].Start.k = "text" /\ salFile.rows[i].End.k = "text"

\* C1: in either store, a load right after an append returns the sequence
\* persisted before the append, in order and unchanged, followed by the
\* appended entry as its last element.
C1_AppendThenLoad ==
  \A s \in sessions :
    LET h == session[s].hist
    IN /\ h.op = "add_entry" =>
            /\ ExpValues(load_data(expFile)) = Append(ExpValues(h.prior), ExpValue(h.entry[1]))
            /\ RangeLabels(load_data(expFile))
       /\ h.op = "add_salary" =>
            /\ SalValues(load_salary_data(salFile)) = Append(SalValues(h.prior), SalValue(h.entry[1]))
            /\ RangeLabels(load_salary_data(salFile))

\* an append to a salary file of two records written without 'Pay Date'
C1_Witness ==
  \E s \in sessions :
    /\ session[s].hist.op = "add_salary"
    /\ Len(session[s].hist.prior) = 2
    /\ ~session[s].sal_at_start.hasPay
    /\ SalValue(session[s].hist.entry[1]) # SalValue(session[s].hist.prior[1].row)

\* C2: in either store, after deleteAt(i) on n entries (0 <= i < n) a load
\* returns n-1 entries: the entry at position i is gone, the others are
\* unchanged and in their order, and they are numbered 0..n-2.
C2_DeleteThenLoad ==
  \A s \in sessions :
    LET h == session[s].hist
        n == Len(h.prior)
    IN /\ h.op = "delete" =>
            /\ n >= 1 /\ h.index[1] \in 0..(n - 1)
            /\ Len(load_data(expFile)) = n - 1
            /\ ExpValues(load_data(expFile)) = RemoveAt(ExpValues(h.prior), h.index[1] + 1)
            /\ Labels(load_data(expFile)) = 0..(n - 2)
            /\ RangeLabels(load_data(expFile))
       /\ h.op = "delete_salary" =>
            /\ n >= 1 /\ h.index[1] \in 0..(n - 1)
            /\ Len(load_salary_data(salFile)) = n - 1
            /\ SalValues(load_salary_data(salFile)) = RemoveAt(SalValues(h.prior), h.index[1] + 1)
            /\ Labels(load_salary_data(salFile)) = 0..(n - 2)
            /\ RangeLabels(load_salary_data(salFile))

\* the middle one of three different expense entries has been deleted
C2_Witness ==
  \E s \in sessions :
    LET h == session[s].hist
    IN /\ h.op = "delete"
       /\ Len(h.prior) = 3
       /\ h.index = <<1>>
       /\ ExpValue(h.prior[1].row) # ExpValue(h.prior[2].row)
       /\ ExpValue(h.prior[3].row) # ExpValue(h.prior[2].row)
       /\ ExpValue(h.prior[1].row) # ExpValue(h.prior[3].row)

\* the year-months of the expense dates in the expense file
ExpenseMonths == {expFile.rows[i].Date.ym : i \in 1..Len(expFile.rows)}

\* the record at position i of the salary store has a pay date that parses
PayParses(i) ==
  convert_to_datetime(load_salary_data(salFile))[i].row.Pay.k = "ts"

\* the year-months of the pay dates that parse
SalaryPayMonths ==
  {load_salary_data(salFile)[i].row.Pay.ym :
     i \in {j \in 1..Len(salFile.rows) : PayParses(j)}}

RECURSIVE SumOver(_, _)
SumOver(f, S) ==
  IF S = {} THEN 0
  ELSE LET x == CHOOSE y \in S : TRUE IN f[x] + SumOver(f, S \ {x})

\* the salaries of the stored records whose start date lies in month m
SalaryStartedIn(m) ==
  SumOver([i \in 1..Len(salFile.rows) |-> salFile.rows[i].Salary],
          {i \in 1..Len(salFile.rows) : salFile.rows[i].Start.ym = m})

\* C4: the salary total of the selected month is the sum of salary over
\* exactly the stored records whose start date lies in the month, whatever
\* their pay date, and total income is 800 plus that sum.
C4_SalaryTotal ==
  \A s \in sessions :
    (PastSalaryTotal(s) /\ session[s].hist.op # "delete_salary") =>
      /\ session[s].total_salary_for_month = SalaryStartedIn(session[s].month_filter[1])
      /\ session[s].total_monthly_income = 800 + SalaryStartedIn(session[s].month_filter[1])

\* the salary table of the month shows a record paid in the month that
\* started in another month, and the total leaves it out while counting a
\* record that started in the month
C4_Witness ==
  \E s \in sessions :
    LET me == session[s]
    IN /\ PastSalaryTotal(s)
       /\ me.hist.op = "none"
       /\ \E i \in 1..Len(me.salary_for_month) :
            me.salary_for_month[i].row.Start.ym # me.month_filter[1]
       /\ me.total_salary_for_month > 0
       /\ me.total_salary_for_month <
            SumOver([i \in 1..Len(salFile.rows) |-> salFile.rows[i].Salary],
                    1..Len(salFile.rows))

\* the salary file is as line 134 of the run of s read it
SalaryAsLoaded(s) ==
  /\ PastMonths(s)
  /\ session[s].hist.op # "delete_salary"

\* C5 (as claimed): record by record, a loaded record without a pay-date
\* value gets its end date as pay date and a record with one keeps it, also
\* in a file in which some records have a pay date and others do not.
C5_PerRecordDerivation ==
  \A s \in sessions :
    SalaryAsLoaded(s) =>
      LET loaded == session[s].salary_loaded
      IN /\ Len(loaded) = Len(salFile.rows)
         /\ \A i \in 1..Len(loaded) :
              IF ~salFile.hasPay \/ salFile.rows[i].Pay.k = "nan"
              THEN DateOf(loaded[i].row.Pay) = DateOf(salFile.rows[i].End)
              ELSE loaded[i].row.Pay = salFile.rows[i].Pay

\* C5 (amended): a load of a file without the 'Pay Date' column returns every
\* record with its end date as pay date; a load of a file with the column
\* returns every record with its stored pay-date value, a blank one too.
C5_PerFileDerivation ==
  \A s \in sessions :
    SalaryAsLoaded(s) =>
      LET loaded == session[s].salary_loaded
      IN /\ Len(loaded) = Len(salFile.rows)
         /\ \A i \in 1..Len(loaded) :
              IF ~salFile.hasPay
              THEN /\ loaded[i].row.Pay.k = "ts"
                   /\ DateOf(loaded[i].row.Pay) = DateOf(salFile.rows[i].End)
              ELSE loaded[i].row.Pay = salFile.rows[i].Pay

\* a file with the column has been loaded in which one record has a pay
\* date and another has none
C5_Witness ==
  \E s \in sessions :
    /\ SalaryAsLoaded(s)
    /\ salFile.hasPay
    /\ \E i \in 1..Len(salFile.rows) : session[s].salary_loaded[i].row.Pay.k = "nan"
    /\ \E i \in 1..Len(salFile.rows) : session[s].salary_loaded[i].row.Pay.k = "text"

\* the file lacked the 'Pay Date' column when the run of s began
StartedLegacy(s) ==
  /\ session[s].ran
  /\ session[s].sal_at_start.exists
  /\ ~session[s].sal_at_start.hasPay

\* C6 (as claimed): from a file whose records lack the pay date, a run that
\* appends no salary leaves every remaining persisted record without it.
C6_OnlyAppendWritesBack ==
  \A s \in sessions :
    (StartedLegacy(s) /\ session[s].hist.op # "add_salary") =>
      (salFile.rows = <<>> \/ ~salFile.hasPay)

\* C6 (amended): loading and rendering never change the salary file; an
\* append and a delete both save the loaded frame, so after either the file
\* has the column and every record that was there before holds its end date
\* as pay date.
C6_SavesWriteBack ==
  \A s \in sessions :
    StartedLegacy(s) =>
      LET op == session[s].hist.op
      IN /\ op \notin {"add_salary", "delete_salary"} => salFile = session[s].sal_at_start
         /\ op \in {"add_salary", "delete_salary"} =>
              /\ salFile.hasPay
              /\ \A i \in 1..Len(salFile.rows) :
                   (op = "add_salary" => i < Len(salFile.rows)) =>
                     /\ salFile.rows[i].Pay.k \in {"text", "stamp"}
                     /\ DateOf(salFile.rows[i].Pay) = DateOf(salFile.rows[i].End)

\* one of two records written without a pay date has been deleted and the
\* other now has one in the file
C6_Witness ==
  \E s \in sessions :
    /\ StartedLegacy(s)
    /\ Len(session[s].sal_at_start.rows) = 2
    /\ session[s].hist.op = "delete_salary"
    /\ Len(salFile.rows) = 1
    /\ salFile.hasPay
    /\ salFile.rows[1].Pay.k = "text"

\* C7: with both files missing or empty a script run ends without an error,
\* with an empty month universe and "no data" in both sections.
C7_EmptyReport ==
  \A s \in sessions :
    ( /\ session[s].ran
      /\ session[s].pc = "done"
      /\ session[s].hist.op = "none"
      /\ expFile.rows = <<>>
      /\ salFile.rows = <<>> ) =>
      /\ session[s].status = "ok"
      /\ session[s].available_months = <<>>
      /\ session[s].exp_section = "no_data"
      /\ session[s].sal_section = "no_data"

\* C8: for a non-empty month, total spent is the sum of the amounts of
\* exactly the expense entries whose date starts with the month, the
\* per-category sums add up to it, every such entry lies in exactly one
\* category group, and the remaining budget is 800 minus the total.
C8_Totals ==
  \A s \in sessions :
    LET me == session[s]
        m == me.month_filter[1]
        stored == IF me.hist.op \in {"add_entry", "delete"} THEN Rows(me.df) ELSE expFile.rows
        inMonth == {i \in 1..Len(stored) : stored[i].Date.ym = m}
        spent == [i \in 1..Len(stored) |-> stored[i].Spent]
        byCat == me.totals.total_spent_by_category
    IN (PastSalaryTotal(s) /\ me.selected_month_data # <<>>) =>
         /\ inMonth # {}
         /\ me.totals.total_spent = SumOver(spent, inMonth)
         /\ SumOver(byCat, DOMAIN byCat) = me.totals.total_spent
         /\ DOMAIN byCat = {stored[i].Category : i \in inMonth}
         /\ \A c \in DOMAIN byCat :
              byCat[c] = SumOver(spent, {i \in inMonth : stored[i].Category = c})
         /\ me.totals.remaining_budget = 800 - me.totals.total_spent

\* a month with entries in two categories, beside an entry of another month
C8_Witness ==
  \E s \in sessions :
    LET me == session[s]
    IN /\ PastSalaryTotal(s)
       /\ me.hist.op = "none"
       /\ Len(me.selected_month_data) = 2
       /\ Len(me.df) = 3
       /\ Cardinality(DOMAIN me.totals.total_spent_by_category) = 2
       /\ me.totals.total_spent = 3

\* C9: with two sessions on one file, what the file holds after a save is
\* the saving session's own copy (what it had loaded, with its entry
\* appended or its row dropped) and nothing of what another session saved
\* in between: the load-mutate-persist cycle is not atomic.
C9_LastWriteWins ==
  /\ lastWriter.exp # 0 =>
       LET h == session[lastWriter.exp].hist
       IN /\ h.op = "add_entry" =>
               ExpValues(load_data(expFile)) = Append(ExpValues(h.loaded), ExpValue(h.entry[1]))
          /\ h.op = "delete" =>
               ExpValues(load_data(expFile)) = RemoveAt(ExpValues(h.loaded), h.index[1] + 1)
  /\ lastWriter.sal # 0 =>
       LET h == session[lastWriter.sal].hist
       IN /\ h.op = "add_salary" =>
               SalValues(load_salary_data(salFile)) = Append(SalValues(h.loaded), SalValue(h.entry[1]))
          /\ h.op = "delete_salary" =>
               SalValues(load_salary_data(salFile)) = RemoveAt(SalValues(h.loaded), h.index[1] + 1)

\* both sessions loaded the same expense collection and appended, both runs
\* ended without an error, and the earlier writer's entry is not in the file
C9_Witness ==
  \E a \in sessions : \E b \in sessions \ {a} :
    /\ session[a].pc = "done" /\ session[b].pc = "done"
    /\ session[a].status = "ok" /\ session[b].status = "ok"
    /\ session[a].hist.op = "add_entry" /\ session[b].hist.op = "add_entry"
    /\ session[a].hist.loaded = session[b].hist.loaded
    /\ lastWriter.exp = b
    /\ ExpValue(session[a].hist.entry[1]) \notin Range(ExpValues(load_data(expFile)))

\* the other interleaving of the claim: a deletes a row, b, which loaded
\* before, appends, and the deleted row is in the file again
C9_DeletedRowReturns ==
  \E a \in sessions : \E b \in sessions \ {a} :
    /\ session[a].pc = "done" /\ session[b].pc = "done"
    /\ session[a].status = "ok" /\ session[b].status = "ok"
    /\ session[a].hist.op = "delete" /\ session[b].hist.op = "add_entry"
    /\ session[a].hist.loaded = session[b].hist.loaded
    /\ lastWriter.exp = b
    /\ ExpValue(session[a].hist.removed[1]) \in Range(ExpValues(load_data(expFile)))

\* C10: with one session, the index chosen in the month's expense table or
\* salary table names, in the store as delete_confirmation reloads it, the
\* very entry shown at that index, and the delete removes that entry and no
\* other, although the table was filtered by month and, for salary, had
\* its rows without a parsable pay date removed.
C10_DeletesDisplayed ==
  \A s \in sessions :
    LET me == session[s]
        h == me.hist
    IN h.index # <<>> =>
         /\ h.displayed # <<>>
         /\ h.removed # <<>>
         /\ me.click.btn = "delete" =>
              /\ ExpValue(h.displayed[1]) = ExpValue(h.removed[1])
              /\ h.op = "delete" =>
                   /\ ExpValue(h.prior[h.index[1] + 1].row) = ExpValue(h.displayed[1])
                   /\ ExpValues(load_data(expFile)) = RemoveAt(ExpValues(h.prior), h.index[1] + 1)
         /\ me.click.btn = "delete_salary" =>
              /\ SalValue(h.displayed[1]) = SalValue(h.removed[1])
              /\ h.op = "delete_salary" =>
                   /\ SalValue(h.prior[h.index[1] + 1].row) = SalValue(h.displayed[1])
                   /\ SalValues(load_salary_data(salFile)) = RemoveAt(SalValues(h.prior), h.index[1] + 1)

\* a salary entry has been deleted that stood, in the store, behind an
\* entry the table did not show because its pay date did not parse
C10_Witness ==
  \E s \in sessions :
    LET me == session[s]
        h == me.hist
    IN /\ h.op = "delete_salary"
       /\ h.index # <<>>
       /\ h.index[1] >= 1
       /\ \E i \in 1..h.index[1] : convert_to_datetime(h.prior)[i].row.Pay.k = "nan"
       /\ Len(me.salary_for_month) < Len(h.prior)

\* the second half of C10, with two sessions: the entry removed is not the
\* entry that was shown at the chosen index
C10_RaceRemovesAnother ==
  \E s \in sessions :
    LET h == session[s].hist
    IN /\ h.op = "delete"
       /\ session[s].status = "ok"
       /\ ExpValue(h.displayed[1]) # ExpValue(h.removed[1])

====
